---- MODULE Spec2Model ----
(***************************************************************************)
(* WhisperLocalWeb (app/main.py): the model cache and its hot switch, the  *)
(* job table, the job log file and the transcription workers.              *)
(*                                                                         *)
(* Threads of the program: the front end (the event loop that runs the     *)
(* request handlers), the workers of EXECUTOR, and one daemon thread per   *)
(* accepted model switch.  Every action below is one access of one thread  *)
(* to shared state (a module-level dict, a file), or a stretch of code     *)
(* between two such accesses, so the interleavings of the model are those  *)
(* of the threads.                                                         *)
(***************************************************************************)
EXTENDS Integers, Sequences, FiniteSets, TLC

\* ---------------------------------------------------------------- bounds
MaxJobs == 2          \* uploads accepted in one run
MaxSwitches == 2      \* switch requests accepted in one run
MaxLoads == 3         \* WhisperModel constructions of one process
MaxSegs == 2          \* segments of one stream
MaxT == 2             \* largest segment time and probed duration (seconds)

\* ------------------------------------------------------ program constants
MAX_WORKERS == 2

AVAILABLE_MODELS ==
  {"tiny", "base", "small", "medium", "large-v1", "large-v2", "large-v3",
   "distil-large-v3"}
valid_compute_types == {"int8", "int8_float16", "int16", "float16", "float32"}
DEFAULTS == [MODEL_ID |-> "base", COMPUTE_TYPE |-> "int8"]

\* Bodies of POST /api/model: "none" is an absent (or falsy) JSON field,
\* "giant" and "bogus" are values outside the supported sets.  (A body that
\* is no JSON at all is answered like one without an id, 400 at line 709.)
SwitchInputs ==
  { [id |-> "small", ct |-> "float16"], [id |-> "small", ct |-> "none"],
    [id |-> "giant", ct |-> "none"], [id |-> "base", ct |-> "bogus"],
    [id |-> "none", ct |-> "none"] }

Jobs == 1..MaxJobs
Workers == 1..MAX_WORKERS
FE == 0                              \* the front end thread
Threads == Workers \cup {FE}
Exts == {"txt", "srt", "vtt", "json"}

\* A loaded model: h numbers the WhisperModel construction that made it.
NoModel == [h |-> 0, id |-> "none", ct |-> "none"]
NoJob == 0

VARIABLES
  budget,       \* the run explored: the uploads, switches and segments it allows
  config,       \* the in-memory config dict: model_id, compute_type
  diskConfig,   \* content of CONFIG_FILE
  cache,        \* _model_cache: id, compute_type, model
  loading,      \* _loading: in_progress, target, error
  loadCount,    \* WhisperModel constructions that succeeded so far
  sw,           \* the switch threads: pc, target, ct, model, old
  nsw,          \* switch threads started
  lock,         \* holder of _switch_lock (0: free)
  swReq,        \* a switch_model handler suspended in `await request.json()`
  resp,         \* the response the step just taken sent, if it sent one
  JOBS,         \* the in-memory job table
  njobs,        \* job ids handed out
  queue,        \* work submitted to EXECUTOR and not yet taken
  wk,           \* the workers: pc, job, model, duration, last start, nseg
  fepc,         \* what the front end is in the middle of
  fejob,        \* the job of the upload the front end is handling
  upPending,    \* an upload handler suspended in its file reads
  uploads,      \* UPLOAD_DIR: jobs whose transient source file exists
  outputs,      \* OUTPUT_DIR: job -> the artifacts written
  meta,         \* job -> model_id, compute_type of the metadata envelope
  jsonFile,     \* content of LOGS_FILE (jobs.json)
  tmpFile,      \* content of LOGS_FILE.with_suffix('.tmp')
  ups,          \* per thread: the upsert_log call in progress
  unlinkFailed, \* jobs whose source file the engine failed to delete
  arg,          \* the string a function of the module is applied to
  fname,        \* the function applied to it, once one was
  ret           \* what the function returned

runVars == <<budget, arg, fname, ret>>
mmVars == <<runVars, config, diskConfig, cache, loading, loadCount, sw, nsw, lock, swReq>>
feVars == <<fepc, fejob, upPending>>
fileVars == <<uploads, outputs, meta, unlinkFailed>>
jobVars == <<JOBS, njobs, queue, wk, feVars, fileVars>>
logVars == <<jsonFile, tmpFile, ups>>
vars == <<mmVars, jobVars, logVars, resp>>

\* ---------------------------------------------------------------- helpers
Min(a, b) == IF a <= b THEN a ELSE b
Cfg(id, ct) == [model_id |-> id, compute_type |-> ct]
Model(h, id, ct) == [h |-> h, id |-> id, ct |-> ct]
Cache(m) == [id |-> m.id, compute_type |-> m.ct, model |-> m]
Loading(p, t, e) == [in_progress |-> p, target |-> t, error |-> e]
Resp(op, code) == [op |-> op, code |-> code]
Quiet == Resp("none", 0)             \* the step sent no response

\* File contents.  A log file holds a table (job -> entry), nothing at all
\* (just truncated), or bytes that are no complete table: a table followed
\* by the tail of a longer one, cut anywhere (torn) or, when the longer one
\* was all ASCII, cut between characters (cut).
Absent == [kind |-> "absent", tab |-> <<>>]
Empty == [kind |-> "empty", tab |-> <<>>]
Torn == [kind |-> "torn", tab |-> <<>>]
Cut == [kind |-> "cut", tab |-> <<>>]
Table(t) == [kind |-> "table", tab |-> t]

\* No string is at hand: the runs of the application pass none around.
NoArg == [kind |-> "none", pad |-> 0, tail |-> <<>>, ending |-> <<>>]

NoCfg == Cfg("none", "none")
NoUpsert == [pc |-> "none", job |-> NoJob, data |-> "none", buf |-> <<>>, fd |-> "none"]
IdleWorker == [pc |-> "idle", job |-> NoJob, model |-> NoModel, loaded |-> NoModel,
               cur |-> NoCfg, dur |-> 0, lastStart |-> 0, nseg |-> 0]
NoReq == [id |-> "idle", ct |-> "idle"]
Unused == [pc |-> "unused", target |-> "none", ct |-> "none", model |-> NoModel,
           old |-> NoCfg]
Finished == [Unused EXCEPT !.pc = "done"]

\* The runs explored.  A pool run: uploads only, streams without segments.
\* A stream run: one upload fewer, the longest streams.  A switch run: model
\* switches beside the uploads of a stream run, shorter streams, no
\* durations, and no failing file operation, probe or decoder (model loads
\* and the config write may still fail).  The process is killed and started
\* again in pool and stream runs only; requests the application has no
\* route for are sent in stream runs only.  A listing run: the uploads of a
\* pool run without failing operations or restarts, beside requests for the
\* log listing.
Budgets ==
  { [jobs |-> MaxJobs, switches |-> 0, segs |-> 0, t |-> 0, faults |-> TRUE,
     restarts |-> TRUE, unrouted |-> FALSE, lists |-> FALSE],
    [jobs |-> MaxJobs - 1, switches |-> 0, segs |-> MaxSegs, t |-> MaxT, faults |-> TRUE,
     restarts |-> TRUE, unrouted |-> TRUE, lists |-> FALSE],
    [jobs |-> MaxJobs - 1, switches |-> MaxSwitches, segs |-> MaxSegs - 1, t |-> 0,
     faults |-> FALSE, restarts |-> FALSE, unrouted |-> FALSE, lists |-> FALSE],
    [jobs |-> MaxJobs, switches |-> 0, segs |-> 0, t |-> 0, faults |-> FALSE,
     restarts |-> FALSE, unrouted |-> FALSE, lists |-> TRUE] }

\* ------------------------------------------------------------------ Init
\* Module import and startup_event: load_config() finds no file and saves the
\* defaults; get_model() either loads the configured model or fails (the
\* failure is logged, line 741, and the cache stays empty).
Serving ==
  /\ config = Cfg(DEFAULTS.MODEL_ID, DEFAULTS.COMPUTE_TYPE)
  /\ diskConfig = config
  /\ \E ok \in BOOLEAN :
       /\ cache = IF ok THEN Cache(Model(1, config.model_id, config.compute_type))
                        ELSE Cache(NoModel)
       /\ loadCount = IF ok THEN 1 ELSE 0
  /\ loading = Loading(FALSE, "none", "none")
  /\ sw = [k \in 1..MaxSwitches |-> Unused]
  /\ nsw = 0
  /\ lock = 0
  /\ swReq = NoReq
  /\ resp = Quiet
  /\ JOBS = <<>>
  /\ njobs = 0
  /\ queue = <<>>
  /\ wk = [w \in Workers |-> IdleWorker]
  /\ fepc = "idle"
  /\ fejob = NoJob
  /\ upPending = FALSE
  /\ uploads = {}
  /\ outputs = [j \in Jobs |-> {}]
  /\ meta = [j \in Jobs |-> NoCfg]
  /\ jsonFile = Absent
  /\ tmpFile = Absent
  /\ ups = [t \in Threads |-> NoUpsert]
  /\ unlinkFailed = {}

Init ==
  /\ budget \in Budgets
  /\ Serving
  /\ arg = NoArg
  /\ fname = "none"
  /\ ret = NoArg

\* A step of a worker that touches nothing but the worker's own state.
WorkerOnly == /\ UNCHANGED <<mmVars, JOBS, njobs, queue, feVars, fileVars, logVars>>
              /\ resp' = Quiet

\* A step of a switch thread.
SwitchOnly == /\ UNCHANGED <<runVars, nsw, swReq, jobVars, logVars>>
              /\ resp' = Quiet

\* ------------------------------------------------------- get_model (145-167)
\* The test of lines 150-152 on the cache and the configured target.
CacheMisses(c, id, ct) ==
  c.model = NoModel \/ c.id # id \/ c.compute_type # ct

\* Lines 148-152: current_compute = config["compute_type"], then the test.
\* No lock is taken here or anywhere else in get_model.
GmCheck(w) ==
  /\ wk[w].pc = "gm_check"
  /\ LET ct == config.compute_type IN
       wk' = [wk EXCEPT ![w].cur.compute_type = ct,
                        ![w].pc = IF CacheMisses(cache, wk[w].cur.model_id, ct)
                                  THEN "gm_load" ELSE "gm_ret"]
  /\ WorkerOnly

\* Line 156: WhisperModel(current_id, ...) returns a new model, or raises
\* (lines 163-165 re-raise into the except clause of transcribe_job).
GmLoad(w) ==
  /\ wk[w].pc = "gm_load"
  /\ \/ /\ loadCount < MaxLoads
        /\ loadCount' = loadCount + 1
        /\ wk' = [wk EXCEPT ![w].loaded = Model(loadCount + 1, wk[w].cur.model_id,
                                                wk[w].cur.compute_type),
                            ![w].pc = "gm_install"]
     \/ /\ wk' = [wk EXCEPT ![w].pc = "except", ![w].cur = NoCfg]
        /\ UNCHANGED loadCount
  /\ UNCHANGED <<runVars, config, diskConfig, cache, loading, sw, nsw, lock, swReq, JOBS,
                 njobs, queue, feVars, fileVars, logVars>>
  /\ resp' = Quiet

\* Lines 157-161: _model_cache.update(model, id, compute_type).
GmInstall(w) ==
  /\ wk[w].pc = "gm_install"
  /\ cache' = Cache(wk[w].loaded)
  /\ wk' = [wk EXCEPT ![w].pc = "gm_ret", ![w].loaded = NoModel]
  /\ UNCHANGED <<runVars, config, diskConfig, loading, loadCount, sw, nsw, lock, swReq,
                 JOBS, njobs, queue, feVars, fileVars, logVars>>
  /\ resp' = Quiet

\* Line 167: return _model_cache["model"], whatever the cache holds by now.
\* Back in transcribe_job, lines 359-369: model.transcribe(...) on the model
\* returned gives the segment stream, or raises.
GmReturn(w) ==
  /\ wk[w].pc = "gm_ret"
  /\ \E ok \in {TRUE, ~budget.faults} :
       wk' = [wk EXCEPT ![w].model = cache.model, ![w].cur = NoCfg,
                        ![w].pc = IF ok THEN "segments" ELSE "except"]
  /\ WorkerOnly

\* ------------------------------------------------------ _do_switch (169-192)
SwActive(k) == sw[k].pc \notin {"unused", "done"}

\* Line 174: the new model is built outside the lock; a failure goes to the
\* except clause of line 189.
SwLoad(k) ==
  /\ sw[k].pc = "load"
  /\ \/ /\ loadCount < MaxLoads
        /\ loadCount' = loadCount + 1
        /\ sw' = [sw EXCEPT ![k].model = Model(loadCount + 1, sw[k].target, sw[k].ct),
                            ![k].pc = "cache"]
     \/ /\ sw' = [sw EXCEPT ![k].pc = "fail"]
        /\ UNCHANGED loadCount
  /\ UNCHANGED <<config, diskConfig, cache, loading, lock>>
  /\ SwitchOnly

\* Lines 176-181: take _switch_lock and rebind _model_cache to a new dict.
SwCache(k) ==
  /\ sw[k].pc = "cache"
  /\ lock = 0
  /\ lock' = k
  /\ cache' = Cache(sw[k].model)
  /\ sw' = [sw EXCEPT ![k].pc = "cfg_id"]
  /\ UNCHANGED <<config, diskConfig, loading, loadCount>>
  /\ SwitchOnly

\* Line 182.
SwConfigId(k) ==
  /\ sw[k].pc = "cfg_id"
  /\ config' = [config EXCEPT !.model_id = sw[k].target]
  /\ sw' = [sw EXCEPT ![k].pc = "cfg_ct"]
  /\ UNCHANGED <<diskConfig, cache, loading, loadCount, lock>>
  /\ SwitchOnly

\* Line 183.
SwConfigCt(k) ==
  /\ sw[k].pc = "cfg_ct"
  /\ config' = [config EXCEPT !.compute_type = sw[k].ct]
  /\ sw' = [sw EXCEPT ![k].pc = "save"]
  /\ UNCHANGED <<diskConfig, cache, loading, loadCount, lock>>
  /\ SwitchOnly

\* Line 184 and save_config (66-76): the file is replaced by a rename, or
\* the write fails and IOError is re-raised (line 76) into line 189.  Either
\* way the with block ends and the lock is released.
SwSave(k) ==
  /\ sw[k].pc = "save"
  /\ lock' = 0
  /\ \/ /\ diskConfig' = config
        /\ sw' = [sw EXCEPT ![k].pc = "clear"]
     \/ /\ sw' = [sw EXCEPT ![k].pc = "fail"]
        /\ UNCHANGED diskConfig
  /\ UNCHANGED <<config, cache, loading, loadCount>>
  /\ SwitchOnly

\* Line 186, after the lock was released; the thread ends.
SwClear(k) ==
  /\ sw[k].pc = "clear"
  /\ loading' = Loading(FALSE, "none", "none")
  /\ sw' = [sw EXCEPT ![k] = Finished]
  /\ UNCHANGED <<config, diskConfig, cache, loadCount, lock>>
  /\ SwitchOnly

\* An except clause that records the error and leaves in_progress alone.
SwFail_KeepsInProgress(k) ==
  /\ sw[k].pc = "fail"
  /\ loading' = [loading EXCEPT !.error = "failed"]
  /\ sw' = [sw EXCEPT ![k] = Finished]
  /\ UNCHANGED <<config, diskConfig, cache, loadCount, lock>>
  /\ SwitchOnly

\* Lines 189-192: in_progress and error are updated, target is not; the
\* thread ends.
SwFail(k) ==
  /\ sw[k].pc = "fail"
  /\ loading' = [loading EXCEPT !.in_progress = FALSE, !.error = "failed"]
  /\ sw' = [sw EXCEPT ![k] = Finished]
  /\ UNCHANGED <<config, diskConfig, cache, loadCount, lock>>
  /\ SwitchOnly

\* ------------------------------- switch_model (700-725), queue_switch (194-209)
\* `x or default` of lines 202 and 712.
OrDefault(x, d) == IF x = "none" THEN d ELSE x

\* queue_switch without the test of line 196.
QueueSwitchCode_NoConflict(id, ct) ==
  IF id \notin AVAILABLE_MODELS THEN 400
  ELSE IF OrDefault(ct, config.compute_type) \notin valid_compute_types THEN 400
  ELSE 200

\* queue_switch without the test of lines 203-205.
QueueSwitchCode_AnyCompute(id, ct) ==
  IF loading.in_progress THEN 409
  ELSE IF id \notin AVAILABLE_MODELS THEN 400
  ELSE 200

\* The status queue_switch (194-205) ends with for (target_id, compute_type).
QueueSwitchCode(id, ct) ==
  IF loading.in_progress THEN 409
  ELSE IF id \notin AVAILABLE_MODELS THEN 400
  ELSE IF OrDefault(ct, config.compute_type) \notin valid_compute_types THEN 400
  ELSE 200

\* switch_model from line 711 on: the body is read; a missing id is 400,
\* otherwise queue_switch decides, and on acceptance (lines 207-209) sets
\* _loading and starts the thread that runs _do_switch.
SwitchRest(id, ct) ==
  LET ctype == OrDefault(ct, config.compute_type)
      code == IF id = "none" THEN 400 ELSE QueueSwitchCode(id, ctype)
  IN /\ code = 200 => nsw < budget.switches
     /\ resp' = Resp("switch", code)
     /\ IF code = 200
        THEN /\ loading' = Loading(TRUE, id, "none")
             /\ nsw' = nsw + 1
             /\ sw' = [sw EXCEPT ![nsw + 1] = [pc |-> "load", target |-> id,
                                               ct |-> OrDefault(ctype, config.compute_type),
                                               model |-> NoModel, old |-> config]]
        ELSE UNCHANGED <<loading, nsw, sw>>

\* The whole handler, when `await request.json()` returns without another
\* handler running in between.
SwitchModel(id, ct) ==
  /\ fepc = "idle"
  /\ budget.switches > 0
  /\ IF loading.in_progress
     THEN /\ resp' = Resp("switch", 409)
          /\ UNCHANGED <<loading, nsw, sw>>
     ELSE SwitchRest(id, ct)
  /\ UNCHANGED <<runVars, config, diskConfig, cache, loadCount, lock, swReq, jobVars, logVars>>

\* Lines 703-707: the first test passes and the handler is suspended.
SwitchModelBegin(id, ct) ==
  /\ fepc = "idle"
  /\ swReq = NoReq
  /\ budget.switches > 0
  /\ ~loading.in_progress
  /\ swReq' = [id |-> id, ct |-> ct]
  /\ UNCHANGED <<runVars, config, diskConfig, cache, loading, loadCount, sw, nsw, lock,
                 jobVars, logVars>>
  /\ resp' = Quiet

\* Lines 711-725 of a handler that was suspended.
SwitchModelResume ==
  /\ fepc = "idle"
  /\ swReq # NoReq
  /\ SwitchRest(swReq.id, swReq.ct)
  /\ swReq' = NoReq
  /\ UNCHANGED <<runVars, config, diskConfig, cache, loadCount, lock, jobVars, logVars>>

\* ------------------------------------------------- the job log (212-247)
\* upsert_log(job_id, {"status": st, ...}) about to start.
BeginUpsert(j, st) == [pc |-> "load", job |-> j, data |-> st, buf |-> <<>>, fd |-> "none"]

\* Lines 239-246: the entry of job j overlaid with the new data.  An entry is
\* full once it holds the file name, which the data of "queued" (532-536)
\* and of "done" (437-444) bring and no later upsert removes.
Merge(logs, j, st) ==
  [i \in (DOMAIN logs) \cup {j} |->
     IF i = j
     THEN [status |-> st,
           full |-> st \in {"queued", "done"} \/ (j \in DOMAIN logs /\ logs[j].full)]
     ELSE logs[i]]

\* Where a worker goes on when its upsert_log returns: line 350 is followed
\* by the try statement, lines 436 and 453 by the finally clause.
AfterLog(pc) ==
  CASE pc = "log_running" -> "probe"
    [] pc = "log_done" -> "finally"
    [] pc = "log_error" -> "finally"
    [] OTHER -> pc

\* upsert_log returned to thread t.
UpsertReturns(t) ==
  /\ resp' = Quiet
  /\ IF t = FE
     THEN /\ fepc' = "submit"
          /\ UNCHANGED <<wk, fejob, uploads>>
     ELSE /\ wk' = [wk EXCEPT ![t].pc = AfterLog(wk[t].pc)]
          /\ UNCHANGED <<fepc, fejob, uploads>>

\* upsert_log raised in thread t.  Line 350 is outside the try statement:
\* the exception ends transcribe_job there and then.  Line 436 is inside it:
\* the except clause of line 449 runs.  Line 453 is inside the except clause:
\* the finally clause runs and the exception ends the call.  In upload_file
\* (line 531) the except clause of line 548 removes the file and answers 500.
UpsertRaises(t) ==
  IF t = FE
  THEN /\ fepc' = "idle"
       /\ uploads' = uploads \ {fejob}
       /\ fejob' = NoJob
       /\ resp' = Resp("upload", 500)
       /\ UNCHANGED wk
  ELSE /\ wk' = [wk EXCEPT ![t] = IF wk[t].pc = "log_running" THEN IdleWorker
                                  ELSE IF wk[t].pc = "log_done" THEN [@ EXCEPT !.pc = "except"]
                                  ELSE [@ EXCEPT !.pc = "finally"]]
       /\ resp' = Quiet
       /\ UNCHANGED <<fepc, fejob, uploads>>

\* The thread's own control state is untouched by the step.
UpsertGoesOn == /\ resp' = Quiet
                /\ UNCHANGED <<wk, fepc, fejob, uploads>>

\* What an upsert step never touches.
UpsertFrame == UNCHANGED <<mmVars, JOBS, njobs, queue, upPending, outputs, meta,
                           unlinkFailed>>

\* load_logs (212-222) and lines 236-246.  A file that is no complete table
\* fails to parse: json.JSONDecodeError is caught and {} is returned; bytes
\* that are not UTF-8 (a table cut inside a character: the file is written
\* with ensure_ascii=False) raise UnicodeDecodeError, which is not caught.
UpsertLoad(t) ==
  /\ ups[t].pc = "load"
  /\ \/ /\ LET logs == IF jsonFile.kind = "table" THEN jsonFile.tab ELSE <<>> IN
             ups' = [ups EXCEPT ![t].buf = Merge(logs, ups[t].job, ups[t].data),
                                ![t].pc = "open"]
        /\ UpsertGoesOn
     \/ /\ jsonFile.kind = "torn"
        /\ ups' = [ups EXCEPT ![t] = NoUpsert]
        /\ UpsertRaises(t)
  /\ UNCHANGED <<jsonFile, tmpFile>>
  /\ UpsertFrame

\* save_logs, line 228: open(temp_file, 'w') creates the file or truncates
\* the one that is there, which another thread may be writing.  An IOError
\* is logged and swallowed (lines 231-232).
UpsertOpen(t) ==
  /\ ups[t].pc = "open"
  /\ \/ /\ tmpFile' = Empty
        /\ ups' = [ups EXCEPT ![t].fd = "tmp", ![t].pc = "write"]
        /\ UpsertGoesOn
     \/ /\ budget.faults
        /\ ups' = [ups EXCEPT ![t] = NoUpsert]
        /\ UpsertReturns(t)
        /\ UNCHANGED tmpFile
  /\ UNCHANGED jsonFile
  /\ UpsertFrame

\* An entry with text of any length and any characters in it: the file name
\* of a full entry, the message of an error entry.  Every other entry is
\* {job_id, created_at, status: running, updated_at}, of one fixed length.
Rich(e) == e.full \/ e.status = "error"

\* The order in which the upserts of one job follow each other.
Stage(st) ==
  CASE st = "queued" -> 0
    [] st = "running" -> 1
    [] st = "done" -> 2
    [] OTHER -> 3

\* Entry e of job i is never longer than entry f of job j, whatever the
\* names and messages: e is of the fixed length, the shortest there is, or
\* both are of one job and f is what later upserts made of e.
NeverLonger(e, i, f, j) ==
  \/ ~Rich(e)
  \/ i = j /\ Stage(e.status) <= Stage(f.status) /\ (e.full => f.full)

\* The text of table new is at least as long as that of table old, whatever
\* the names and messages: the entries of old map one to one to entries of
\* new that are never shorter.
Covers(new, old) ==
  LET richOld == {j \in DOMAIN old : Rich(old[j])} IN
    /\ \A j \in richOld : j \in DOMAIN new /\ NeverLonger(old[j], j, new[j], j)
    /\ Cardinality((DOMAIN new) \ richOld) >= Cardinality((DOMAIN old) \ richOld)

\* What a file holds after a table is written at its start: the table, or,
\* when the file held a longer text, the table followed by that text's end
\* (all ASCII when the longer text had no name or message in it).
Overlay(c, t) ==
  CASE c.kind = "table" ->
         IF Covers(t, c.tab) THEN {Table(t)}
         ELSE IF \E j \in DOMAIN c.tab : Rich(c.tab[j]) THEN {Table(t), Torn}
         ELSE {Table(t), Cut}
    [] c.kind = "torn" -> {Table(t), Torn}
    [] c.kind = "cut" -> {Table(t), Cut}
    [] OTHER -> {Table(t)}

\* Lines 229-230: json.dump and close, into the file the descriptor is
\* open on: still the temp file, or by now jobs.json (another thread renamed
\* it), or a file no name leads to any more.
UpsertWrite(t) ==
  /\ ups[t].pc = "write"
  /\ ups' = [ups EXCEPT ![t].fd = "none", ![t].buf = <<>>, ![t].pc = "replace"]
  /\ CASE ups[t].fd = "tmp" ->
            /\ tmpFile' \in Overlay(tmpFile, ups[t].buf)
            /\ UNCHANGED jsonFile
       [] ups[t].fd = "json" ->
            /\ jsonFile' \in Overlay(jsonFile, ups[t].buf)
            /\ UNCHANGED tmpFile
       [] OTHER -> UNCHANGED <<jsonFile, tmpFile>>
  /\ UpsertGoesOn
  /\ UpsertFrame

\* A descriptor after the temp file was renamed over jobs.json.
Renamed(fd) ==
  CASE fd = "tmp" -> "json"
    [] fd = "json" -> "orphan"
    [] OTHER -> fd

\* Line 230: temp_file.replace(LOGS_FILE).  When another thread has renamed
\* the temp file already, FileNotFoundError is logged and swallowed.
UpsertReplace(t) ==
  /\ ups[t].pc = "replace"
  /\ IF tmpFile.kind = "absent"
     THEN /\ ups' = [ups EXCEPT ![t] = NoUpsert]
          /\ UNCHANGED <<jsonFile, tmpFile>>
     ELSE /\ jsonFile' = tmpFile
          /\ tmpFile' = Absent
          /\ ups' = [u \in Threads |-> IF u = t THEN NoUpsert
                                      ELSE [ups[u] EXCEPT !.fd = Renamed(ups[u].fd)]]
  /\ UpsertReturns(t)
  /\ UpsertFrame

\* ------------------------------------------------------ upload_file (488-553)
NewJob == [status |-> "queued", progress |-> <<0, 1>>, error |-> FALSE]

\* Lines 496-505: 423 while a switch is in progress, 400 for a file that
\* fails validate_file; otherwise the handler is suspended in its reads.
UploadBegin(valid) ==
  /\ fepc = "idle"
  /\ ~upPending
  /\ njobs < budget.jobs
  /\ IF loading.in_progress
     THEN /\ resp' = Resp("upload", 423)
          /\ UNCHANGED upPending
     ELSE IF ~valid
     THEN /\ resp' = Resp("upload", 400)
          /\ UNCHANGED upPending
     ELSE /\ upPending' = TRUE
          /\ resp' = Quiet
  /\ UNCHANGED <<mmVars, JOBS, njobs, queue, wk, fepc, fejob, fileVars, logVars>>

\* Lines 508-537: the file is stored, the record is created as queued and
\* upsert_log starts; or storing fails and line 548 answers 500.
UploadStore ==
  /\ fepc = "idle"
  /\ upPending
  /\ upPending' = FALSE
  /\ \/ /\ njobs' = njobs + 1
        /\ uploads' = uploads \cup {njobs + 1}
        /\ JOBS' = [j \in (DOMAIN JOBS) \cup {njobs + 1} |->
                      IF j = njobs + 1 THEN NewJob ELSE JOBS[j]]
        /\ fepc' = "log_queued"
        /\ fejob' = njobs + 1
        /\ ups' = [ups EXCEPT ![FE] = BeginUpsert(njobs + 1, "queued")]
        /\ resp' = Quiet
     \/ /\ budget.faults
        /\ resp' = Resp("upload", 500)
        /\ UNCHANGED <<njobs, uploads, JOBS, fepc, fejob, ups>>
  /\ UNCHANGED <<mmVars, queue, wk, outputs, meta, unlinkFailed, jsonFile, tmpFile>>

\* Line 540: EXECUTOR.submit, then the job page is returned.
UploadSubmit ==
  /\ fepc = "submit"
  /\ queue' = Append(queue, fejob)
  /\ fepc' = "idle"
  /\ fejob' = NoJob
  /\ resp' = Resp("upload", 200)
  /\ UNCHANGED <<mmVars, JOBS, njobs, wk, upPending, fileVars, logVars>>

\* --------------------------------------------------- transcribe_job (341-462)
\* A free worker of EXECUTOR (the workers are alike: the first free one)
\* takes the next submission; lines 343-350.
WStart(w) ==
  /\ wk[w].pc = "idle"
  /\ \A v \in Workers : v < w => wk[v].pc # "idle"
  /\ queue # <<>>
  /\ LET j == Head(queue) IN
       /\ JOBS' = [JOBS EXCEPT ![j] = [status |-> "running", progress |-> <<0, 1>>,
                                       error |-> FALSE]]
       /\ wk' = [wk EXCEPT ![w] = [IdleWorker EXCEPT !.pc = "log_running", !.job = j]]
       /\ ups' = [ups EXCEPT ![w] = BeginUpsert(j, "running")]
  /\ queue' = Tail(queue)
  /\ UNCHANGED <<mmVars, njobs, feVars, fileVars, jsonFile, tmpFile>>
  /\ resp' = Quiet

\* Lines 354-355 and get_audio_duration (312-322): the duration, 0.0 when
\* ffprobe fails with one of the caught errors; any other error (no ffprobe
\* binary: FileNotFoundError) reaches the except clause of line 449.  Then
\* get_model is entered, line 147: current_id = config["model_id"].
WProbe(w) ==
  /\ wk[w].pc = "probe"
  /\ \/ \E d \in 0..budget.t :
          wk' = [wk EXCEPT ![w].dur = d, ![w].cur.model_id = config.model_id,
                           ![w].pc = "gm_check"]
     \/ /\ budget.faults
        /\ wk' = [wk EXCEPT ![w].pc = "except"]
  /\ WorkerOnly

\* Line 386: min(last_end_time / duration, 0.99), as a fraction.
Progress(end, duration) ==
  IF end * 100 >= 99 * duration THEN <<99, 100>> ELSE <<end, duration>>

\* The loop with the model fetched again for every segment.
WSegment_Refetch(w) ==
  /\ wk[w].pc = "segments"
  /\ wk[w].nseg < budget.segs
  /\ \E start \in wk[w].lastStart..budget.t : \E end \in start..budget.t :
       /\ wk' = [wk EXCEPT ![w].lastStart = start, ![w].nseg = @ + 1,
                           ![w].model = cache.model]
       /\ JOBS' = IF wk[w].dur > 0
                  THEN [JOBS EXCEPT ![wk[w].job].progress = Progress(end, wk[w].dur)]
                  ELSE JOBS
  /\ UNCHANGED <<mmVars, njobs, queue, feVars, fileVars, logVars>>
  /\ resp' = Quiet

\* Lines 375-390, one round of the loop for a segment (start, end) of the
\* stream: start is not before the previous start, end is not before start.
WSegment(w) ==
  /\ wk[w].pc = "segments"
  /\ wk[w].nseg < budget.segs
  /\ \E start \in wk[w].lastStart..budget.t : \E end \in start..budget.t :
       /\ wk' = [wk EXCEPT ![w].lastStart = start, ![w].nseg = @ + 1]
       /\ JOBS' = IF wk[w].dur > 0
                  THEN [JOBS EXCEPT ![wk[w].job].progress = Progress(end, wk[w].dur)]
                  ELSE JOBS
  /\ UNCHANGED <<mmVars, njobs, queue, feVars, fileVars, logVars>>
  /\ resp' = Quiet

\* The decoder raises in the middle of the stream.
WSegmentsFail(w) ==
  /\ budget.faults
  /\ wk[w].pc = "segments"
  /\ wk' = [wk EXCEPT ![w].pc = "except", ![w].dur = 0, ![w].lastStart = 0, ![w].nseg = 0]
  /\ WorkerOnly

\* The first n artifacts in the order lines 399-423 write them.
FirstExts(n) ==
  CASE n = 0 -> {}
    [] n = 1 -> {"txt"}
    [] n = 2 -> {"txt", "srt"}
    [] n = 3 -> {"txt", "srt", "vtt"}
    [] OTHER -> Exts

\* The stream ends (line 375 leaves the loop).  Lines 393-423: the artifacts
\* are written one after the other; a write that fails leaves the earlier
\* ones and raises.  The metadata envelope takes model_id and compute_type
\* from config (lines 409-410).
WWrite(w) ==
  /\ wk[w].pc = "segments"
  /\ \E n \in (IF budget.faults THEN 0..4 ELSE {4}) :
       /\ outputs' = [outputs EXCEPT ![wk[w].job] = @ \cup FirstExts(n)]
       /\ IF n = 4
          THEN /\ meta' = [meta EXCEPT ![wk[w].job] = config]
               /\ wk' = [wk EXCEPT ![w].pc = "mark_done", ![w].dur = 0,
                                   ![w].lastStart = 0, ![w].nseg = 0]
          ELSE /\ wk' = [wk EXCEPT ![w].pc = "except", ![w].dur = 0,
                                   ![w].lastStart = 0, ![w].nseg = 0]
               /\ UNCHANGED meta
  /\ UNCHANGED <<mmVars, JOBS, njobs, queue, feVars, uploads, unlinkFailed, logVars>>
  /\ resp' = Quiet

\* Lines 426-436: the record becomes done with progress 1.0, then the
\* completion is logged (inside the try statement).
WMarkDone(w) ==
  /\ wk[w].pc = "mark_done"
  /\ JOBS' = [JOBS EXCEPT ![wk[w].job].status = "done", ![wk[w].job].progress = <<1, 1>>]
  /\ wk' = [wk EXCEPT ![w].pc = "log_done"]
  /\ ups' = [ups EXCEPT ![w] = BeginUpsert(wk[w].job, "done")]
  /\ UNCHANGED <<mmVars, njobs, queue, feVars, fileVars, jsonFile, tmpFile>>
  /\ resp' = Quiet

\* An except clause that logs the exception and leaves the record alone.
WExcept_LogOnly(w) ==
  /\ wk[w].pc = "except"
  /\ wk' = [wk EXCEPT ![w].pc = "log_error"]
  /\ ups' = [ups EXCEPT ![w] = BeginUpsert(wk[w].job, "error")]
  /\ UNCHANGED <<mmVars, JOBS, njobs, queue, feVars, fileVars, jsonFile, tmpFile>>
  /\ resp' = Quiet

\* Lines 449-453: any exception raised in the try statement.
WExcept(w) ==
  /\ wk[w].pc = "except"
  /\ JOBS' = [JOBS EXCEPT ![wk[w].job].status = "error", ![wk[w].job].error = TRUE]
  /\ wk' = [wk EXCEPT ![w].pc = "log_error"]
  /\ ups' = [ups EXCEPT ![w] = BeginUpsert(wk[w].job, "error")]
  /\ UNCHANGED <<mmVars, njobs, queue, feVars, fileVars, jsonFile, tmpFile>>
  /\ resp' = Quiet

\* The cleanup as the last statement of the try block instead of a finally
\* clause: a job that failed keeps its source file.
WFinally_KeepOnError(w) ==
  /\ wk[w].pc = "finally"
  /\ \/ /\ uploads' = IF JOBS[wk[w].job].status = "error" THEN uploads
                        ELSE uploads \ {wk[w].job}
        /\ UNCHANGED unlinkFailed
     \/ /\ budget.faults
        /\ wk[w].job \in uploads
        /\ unlinkFailed' = unlinkFailed \cup {wk[w].job}
        /\ UNCHANGED uploads
  /\ wk' = [wk EXCEPT ![w] = IdleWorker]
  /\ UNCHANGED <<mmVars, JOBS, njobs, queue, feVars, outputs, meta, logVars>>
  /\ resp' = Quiet

\* Lines 455-462: the source file is unlinked; an OSError is logged and the
\* file stays.  transcribe_job is over and the worker is free again.
WFinally(w) ==
  /\ wk[w].pc = "finally"
  /\ \/ /\ uploads' = uploads \ {wk[w].job}
        /\ UNCHANGED unlinkFailed
     \/ /\ budget.faults
        /\ wk[w].job \in uploads
        /\ unlinkFailed' = unlinkFailed \cup {wk[w].job}
        /\ UNCHANGED uploads
  /\ wk' = [wk EXCEPT ![w] = IdleWorker]
  /\ UNCHANGED <<mmVars, JOBS, njobs, queue, feVars, outputs, meta, logVars>>
  /\ resp' = Quiet

\* ------------------------------------------------ the routes (465-751)
\* A request to delete job j.  The application registers GET and POST
\* routes only (lines 465, 470, 488, 555, 638, 650, 677, 689, 700, 750) and
\* no function of the module removes a job: the framework answers 404 (405
\* when the path is that of a GET or POST route) and no handler runs.
DeleteRequest(j) ==
  /\ budget.unrouted
  /\ fepc = "idle"
  /\ resp' = Resp("delete", 404)
  /\ UNCHANGED <<mmVars, jobVars, logVars>>

\* ------------------------------------------ the process is started again
\* The jobs whose files cleanup_old_files (324-335) finds older than a day:
\* the k oldest jobs.
OldJobs(k) == 1..k

\* The process is killed at any point and started again: module import
\* (config = load_config(), line 78; JOBS = {}, line 338; the model cache
\* and _loading as lines 141-142 set them) and startup_event (728-741):
\* cleanup_old_files removes the old files of UPLOAD_DIR and OUTPUT_DIR, and
\* get_model loads the configured model or fails.  The files stay as the
\* killed threads left them.
Restart ==
  /\ budget.restarts
  /\ DOMAIN JOBS # {}
  /\ config' = diskConfig
  /\ \E ok \in BOOLEAN :
       /\ cache' = IF ok THEN Cache(Model(1, diskConfig.model_id, diskConfig.compute_type))
                         ELSE Cache(NoModel)
       /\ loadCount' = IF ok THEN 1 ELSE 0
  /\ loading' = Loading(FALSE, "none", "none")
  /\ sw' = [k \in 1..MaxSwitches |-> IF sw[k] = Unused THEN Unused ELSE Finished]
  /\ lock' = 0
  /\ swReq' = NoReq
  /\ JOBS' = <<>>
  /\ queue' = <<>>
  /\ wk' = [w \in Workers |-> IdleWorker]
  /\ fepc' = "idle"
  /\ fejob' = NoJob
  /\ upPending' = FALSE
  /\ ups' = [t \in Threads |-> NoUpsert]
  /\ \E k \in 0..njobs :
       /\ uploads' = uploads \ OldJobs(k)
       /\ outputs' = [j \in Jobs |-> IF j \in OldJobs(k) THEN {} ELSE outputs[j]]
       /\ meta' = [j \in Jobs |-> IF j \in OldJobs(k) THEN NoCfg ELSE meta[j]]
  /\ UNCHANGED <<runVars, diskConfig, nsw, njobs, jsonFile, tmpFile, unlinkFailed>>
  /\ resp' = Quiet


\* ------------------------------------------------------------------ Next
\* ------------------------------------------------------- get_logs (638-648)

\* The table load_logs (212-222) returns when it returns: {} for a file that
\* is missing or does not parse.
LoadedLogs == IF jsonFile.kind = "table" THEN jsonFile.tab ELSE <<>>

\* Values of the query parameter `limit` of GET /api/logs.
LimitInputs == {-1, 0, 1, 2, 50, 1000, 1001}

EffectiveLimit_Clamped(limit) ==
  IF limit < 1 THEN 1 ELSE IF limit > 1000 THEN 1000 ELSE limit

\* Lines 641-642: the limit the handler goes on with.
EffectiveLimit(limit) == IF limit <= 0 \/ limit > 1000 THEN 50 ELSE limit

\* Lines 644-648: the number of items of the answer, items[:limit] of the
\* entries sorted by updated_at.
get_logs(limit) == Min(EffectiveLimit(limit), Cardinality(DOMAIN LoadedLogs))

\* GET /api/logs: the handler runs on the event loop between two steps of the
\* other handlers; load_logs lets a UnicodeDecodeError of a torn file escape
\* (line 219 catches JSONDecodeError and IOError only).
ListRequest(limit) ==
  /\ budget.lists
  /\ fepc = "idle"
  /\ \/ resp' = [op |-> "list", code |-> 200, n |-> get_logs(limit)]
     \/ jsonFile.kind = "torn" /\ resp' = Resp("list", 500)
  /\ UNCHANGED <<mmVars, jobVars, logVars>>

Next ==
  \/ \E r \in SwitchInputs : SwitchModel(r.id, r.ct)
  \/ \E r \in SwitchInputs : SwitchModelBegin(r.id, r.ct)
  \/ SwitchModelResume
  \/ \E k \in 1..MaxSwitches :
       SwLoad(k) \/ SwCache(k) \/ SwConfigId(k) \/ SwConfigCt(k) \/ SwSave(k)
         \/ SwClear(k) \/ SwFail(k)
  \/ \E valid \in BOOLEAN : UploadBegin(valid)
  \/ UploadStore
  \/ UploadSubmit
  \/ \E t \in Threads : UpsertLoad(t) \/ UpsertOpen(t) \/ UpsertWrite(t) \/ UpsertReplace(t)
  \/ \E w \in Workers :
       WStart(w) \/ WProbe(w) \/ GmCheck(w) \/ GmLoad(w) \/ GmInstall(w) \/ GmReturn(w)
         \/ WSegment(w) \/ WSegmentsFail(w) \/ WWrite(w) \/ WMarkDone(w) \/ WExcept(w)
         \/ WFinally(w)
  \/ \E j \in Jobs : DeleteRequest(j)
  \/ Restart
  \/ \E limit \in LimitInputs : ListRequest(limit)

Spec == Init /\ [][Next]_vars

\* ------------------------------------------------- the pool, scheduled fairly
\* The steps of worker w: those of transcribe_job and of the upsert_log
\* calls it makes.
WorkerStep(w) ==
  \/ WStart(w) \/ WProbe(w) \/ GmCheck(w) \/ GmLoad(w) \/ GmInstall(w) \/ GmReturn(w)
  \/ WSegment(w) \/ WSegmentsFail(w) \/ WWrite(w) \/ WMarkDone(w) \/ WExcept(w)
  \/ WFinally(w)
  \/ UpsertLoad(w) \/ UpsertOpen(w) \/ UpsertWrite(w) \/ UpsertReplace(w)

\* The steps of an upload handler once its request is in.
HandlerStep ==
  \/ UploadStore
  \/ UploadSubmit
  \/ UpsertLoad(FE) \/ UpsertOpen(FE) \/ UpsertWrite(FE) \/ UpsertReplace(FE)

\* An application that is never killed and never asked to switch models.
InitLive ==
  /\ budget = [jobs |-> MaxJobs, switches |-> 0, segs |-> MaxSegs - 1, t |-> 0,
               faults |-> TRUE, restarts |-> FALSE, unrouted |-> FALSE, lists |-> FALSE]
  /\ Serving
  /\ arg = NoArg
  /\ fname = "none"
  /\ ret = NoArg

NextLive ==
  \/ \E valid \in BOOLEAN : UploadBegin(valid)
  \/ HandlerStep
  \/ \E w \in Workers : WorkerStep(w)

\* The threads of EXECUTOR and the event loop are scheduled by the operating
\* system: a thread that can take a step takes one in the end.  Requests
\* arrive or not as their senders please.
SpecLive ==
  /\ InitLive
  /\ [][NextLive]_vars
  /\ \A w \in Workers : WF_vars(WorkerStep(w))
  /\ WF_vars(HandlerStep)

\* ============================================== the functions on strings
\* A character is a string of one character; a string is a sequence of
\* characters.  The strings tried are `pad` letters "a", a short tail of any
\* characters and an ending, so that the lengths 200 and 255 the code
\* compares with are reached with and without an extension.
MaxTail == 3        \* characters of a file name between padding and ending
MaxText == 5        \* characters of a text to normalize

MAX_FILENAME == 255        \* line 100
MAX_SANITIZED == 200       \* line 116

FileChars == {"P", ".", "/", "\\", " "}
Endings == {<<>>, <<".", "m", "P", "3">>, <<".", "m", "p">>}
MaxEnding == CHOOSE n \in {Len(e) : e \in Endings} : \A e \in Endings : Len(e) <= n
TextChars == {"\r", "\n", "\\", "n", "a"}

SeqsUpTo(S, n) == UNION {[1..k -> S] : k \in 0..n}

Pads == {0, MAX_SANITIZED - MaxTail, MAX_FILENAME - MaxTail - MaxEnding,
         MAX_FILENAME - MaxTail - MaxEnding + 1}

FileNameInputs ==
  {[kind |-> "filename", pad |-> p, tail |-> t, ending |-> e] :
     p \in Pads, t \in SeqsUpTo(FileChars, MaxTail), e \in Endings}

TextInputs ==
  {[kind |-> "text", pad |-> 0, tail |-> t, ending |-> <<>>] : t \in SeqsUpTo(TextChars, MaxText)}

String(x) == [i \in 1..x.pad |-> "a"] \o x.tail \o x.ending

Chars(s) == {s[i] : i \in 1..Len(s)}

\* `old in s` for a string old of two characters.
Contains(s, old) == \E i \in 1..(Len(s) - 1) : s[i] = old[1] /\ s[i + 1] = old[2]

\* Line 22.
ALLOWED_EXTENSIONS ==
  { <<".", "m", "p", "3">>, <<".", "w", "a", "v">>, <<".", "m", "p", "4">>,
    <<".", "a", "v", "i">>, <<".", "m", "o", "v">>, <<".", "m", "4", "a">>,
    <<".", "f", "l", "a", "c">>, <<".", "o", "g", "g">>, <<".", "w", "e", "b", "m">> }

\* pathlib.Path(name).suffix for a name without separators: the name from
\* its last dot on, unless that dot is its first or its last character.
suffix(s) ==
  LET dots == {i \in 1..Len(s) : s[i] = "."} IN
    IF dots = {} THEN <<>>
    ELSE LET i == CHOOSE d \in dots : \A e \in dots : e <= d IN
           IF 1 < i /\ i < Len(s) THEN SubSeq(s, i, Len(s)) ELSE <<>>

\* str.lower() over the characters tried.
lower(s) == [i \in 1..Len(s) |-> IF s[i] = "P" THEN "p" ELSE s[i]]

validate_filename_NoSeparatorCheck(filename) ==
  IF Len(filename) = 0 \/ Len(filename) > MAX_FILENAME THEN FALSE
  ELSE IF Contains(filename, <<".", ".">>) THEN FALSE
  ELSE lower(suffix(filename)) \in ALLOWED_EXTENSIONS

\* Lines 98-109.
validate_filename(filename) ==
  IF Len(filename) = 0 \/ Len(filename) > MAX_FILENAME THEN FALSE
  ELSE IF \/ Contains(filename, <<".", ".">>)
          \/ "/" \in Chars(filename)
          \/ "\\" \in Chars(filename) THEN FALSE
  ELSE lower(suffix(filename)) \in ALLOWED_EXTENSIONS

\* Line 114.
safe_chars ==
  { "a", "b", "c", "d", "e", "f", "g", "h", "i", "j", "k", "l", "m", "n", "o", "p", "q",
    "r", "s", "t", "u", "v", "w", "x", "y", "z",
    "A", "B", "C", "D", "E", "F", "G", "H", "I", "J", "K", "L", "M", "N", "O", "P", "Q",
    "R", "S", "T", "U", "V", "W", "X", "Y", "Z",
    "0", "1", "2", "3", "4", "5", "6", "7", "8", "9", ".", "_", "-" }

sanitize_filename_NoTruncation(filename) ==
  [i \in 1..Len(filename) |-> IF filename[i] \in safe_chars THEN filename[i] ELSE "_"]

\* Lines 111-116.
sanitize_filename(filename) ==
  LET sanitized ==
        [i \in 1..Len(filename) |-> IF filename[i] \in safe_chars THEN filename[i] ELSE "_"]
  IN SubSeq(sanitized, 1, Min(MAX_SANITIZED, Len(sanitized)))

\* str.replace(old, new): the occurrences of old, found from the left and
\* not overlapping, are replaced by new.
RECURSIVE replace(_, _, _)
replace(s, old, new) ==
  IF Len(s) < Len(old) THEN s
  ELSE IF SubSeq(s, 1, Len(old)) = old
  THEN new \o replace(SubSeq(s, Len(old) + 1, Len(s)), old, new)
  ELSE <<s[1]>> \o replace(Tail(s), old, new)

normalize_newlines_CrLfOnly(text) ==
  IF Len(text) = 0 THEN <<>>
  ELSE replace(replace(text, <<"\r", "\n">>, <<"\n">>), <<"\\", "n">>, <<"\n">>)

\* Lines 250-257.
normalize_newlines(text) ==
  IF Len(text) = 0 THEN <<>>
  ELSE replace(replace(replace(text, <<"\r", "\n">>, <<"\n">>), <<"\r">>, <<"\n">>),
               <<"\\", "n">>, <<"\n">>)

\* The texts of the segments of a transcription: a few characters each,
\* letters, spaces and line ends.
MaxSegText == 2
SegChars == {"a", " ", "\n"}

SegmentInputs ==
  {[kind |-> "segments", pad |-> 0, tail |-> s, ending |-> <<>>] :
     s \in SeqsUpTo(SeqsUpTo(SegChars, MaxSegText), MaxSegs)}

\* str.strip(): the string without the white space at its two ends.
strip(s) ==
  LET ink == {i \in 1..Len(s) : s[i] \notin {" ", "\n", "\r", "\t"}} IN
    IF ink = {} THEN <<>>
    ELSE SubSeq(s, CHOOSE i \in ink : \A k \in ink : i <= k,
                   CHOOSE i \in ink : \A k \in ink : k <= i)

\* sep.join(strings)
RECURSIVE join(_, _)
join(sep, strings) ==
  IF Len(strings) = 0 THEN <<>>
  ELSE IF Len(strings) = 1 THEN strings[1]
  ELSE strings[1] \o sep \o join(sep, Tail(strings))

\* Lines 306-309: the segments with a text that is not empty, each
\* normalized and stripped, joined by LF.
segments_to_text(segments) ==
  LET kept == SelectSeq(segments, LAMBDA t : Len(t) > 0) IN
    join(<<"\n">>, [i \in 1..Len(kept) |-> strip(normalize_newlines(kept[i]))])

\* A function is applied to the string at hand, once.
Applies(f, y) ==
  /\ fname = "none"
  /\ fname' = f
  /\ ret' = y
  /\ UNCHANGED <<budget, arg, config, diskConfig, cache, loading, loadCount, sw, nsw, lock,
                 swReq, jobVars, logVars, resp>>

ValidateFilename ==
  /\ arg.kind = "filename"
  /\ Applies("validate_filename", validate_filename(String(arg)))

SanitizeFilename ==
  /\ arg.kind = "filename"
  /\ Applies("sanitize_filename", sanitize_filename(String(arg)))

NormalizeNewlines ==
  /\ arg.kind = "text"
  /\ Applies("normalize_newlines", normalize_newlines(String(arg)))

SegmentsToText ==
  /\ arg.kind = "segments"
  /\ Applies("segments_to_text", segments_to_text(arg.tail))

\* POST /upload of a file with the name at hand: validate_file (118-137)
\* accepts the file when validate_filename accepts its name and its size
\* lies between MIN_FILE_SIZE and MAX_FILE_SIZE.
UploadNamed ==
  /\ arg.kind = "filename"
  /\ \E sizeOk \in BOOLEAN : UploadBegin(validate_filename(String(arg)) /\ sizeOk)

\* The strings one after the other, each given to the functions and, as the
\* name of a file, to the upload handler of a freshly started application.
InitText ==
  /\ budget = [jobs |-> MaxJobs - 1, switches |-> 0, segs |-> 0, t |-> 0, faults |-> FALSE,
               restarts |-> FALSE, unrouted |-> FALSE, lists |-> FALSE]
  /\ Serving
  /\ arg \in FileNameInputs \cup TextInputs \cup SegmentInputs
  /\ fname = "none"
  /\ ret = NoArg

NextText ==
  \/ ValidateFilename
  \/ SanitizeFilename
  \/ NormalizeNewlines
  \/ SegmentsToText
  \/ UploadNamed
  \/ UploadStore
  \/ UpsertLoad(FE) \/ UpsertOpen(FE) \/ UpsertWrite(FE) \/ UpsertReplace(FE)
  \/ UploadSubmit

SpecText == InitText /\ [][NextText]_vars

\* ------------------------------------------- the switches, scheduled fairly
\* The steps of the thread queue_switch starts (lines 208-209).
SwitchStep(k) ==
  SwLoad(k) \/ SwCache(k) \/ SwConfigId(k) \/ SwConfigCt(k) \/ SwSave(k) \/ SwClear(k)
    \/ SwFail(k)

\* An application that is never killed and is asked for model switches only:
\* no step of an upload or of a worker touches _loading, _switch_lock or a
\* switch thread (WorkerOnly, UpsertFrame and the frames of the upload steps
\* leave mmVars alone but for the cache and the load counter).
InitSwitching ==
  /\ budget = [jobs |-> 0, switches |-> MaxSwitches, segs |-> 0, t |-> 0,
               faults |-> FALSE, restarts |-> FALSE, unrouted |-> FALSE, lists |-> FALSE]
  /\ Serving
  /\ arg = NoArg
  /\ fname = "none"
  /\ ret = NoArg

NextSwitching ==
  \/ \E r \in SwitchInputs : SwitchModel(r.id, r.ct)
  \/ \E r \in SwitchInputs : SwitchModelBegin(r.id, r.ct)
  \/ SwitchModelResume
  \/ \E k \in 1..MaxSwitches : SwitchStep(k)

\* The switch threads are scheduled by the operating system;
\* WhisperModel(...) returns or raises.
SpecSwitching ==
  /\ InitSwitching
  /\ [][NextSwitching]_vars
  /\ \A k \in 1..MaxSwitches : WF_vars(SwitchStep(k))

\* ------------------------------------------------- get_job_status (555-636)
\* round(progress, 4), in units of 1/10000.  (No fraction the model forms
\* lies halfway between two such units.)
Round4(p) == (p[1] * 20000 + p[2]) \div (2 * p[2])

\* What GET /api/status/<j> answers in the current state: from JOBS, else
\* from the job's metadata file, else from the log, else 404.
get_job_status(j) ==
  IF j \in DOMAIN JOBS
  THEN [code |-> 200, status |-> JOBS[j].status, progress |-> Round4(JOBS[j].progress)]
  ELSE IF "json" \in outputs[j]
  THEN [code |-> 200, status |-> "done", progress |-> 10000]
  ELSE IF jsonFile.kind = "table" /\ j \in DOMAIN jsonFile.tab
  THEN [code |-> 200, status |-> jsonFile.tab[j].status, progress |-> 0]
  ELSE [code |-> 404, status |-> "none", progress |-> 0]

\* The answers GET /api/status/<j> may give in the current state: the one
\* above, or 500 when load_logs (lines 598 and 621) raises on a log file
\* that is cut inside a character.
StatusReplies(j) ==
  {get_job_status(j)} \cup
    (IF j \notin DOMAIN JOBS /\ jsonFile.kind = "torn"
     THEN {[code |-> 500, status |-> "none", progress |-> 0]} ELSE {})

\* GET /api/download/<j>.<ext> (650-674) for the file names the application
\* gives its artifacts: the answer depends on the file alone (line 658).
download_file(j, ext) == IF ext \in outputs[j] THEN 200 ELSE 404

\* ================================================================= claims
Terminal == {"done", "error"}

\* The worker, if any, that is executing job j.
Executing(j) == \E w \in Workers : wk[w].job = j

\* C1 (as claimed): however many workers call get_model while the cache
\* does not hold the configured model, one model is loaded.  While no switch
\* was ever accepted the configured model never changes, so all loads are
\* for the same target and the load counter must not pass 1.
C1_OneLoadForAllCallers == nsw = 0 => loadCount <= 1

\* C2: from the moment get_model has returned a model to a worker, every
\* step of any thread (a switch that commits included) leaves that worker
\* with the same model until transcribe_job is over, and then the job is
\* done or in error (unless the process is killed first).
C2_JobKeepsItsModel ==
  [][\A w \in Workers :
       wk[w].model # NoModel =>
         \/ wk'[w].model = wk[w].model /\ wk'[w].job = wk[w].job
         \/ wk'[w] = IdleWorker /\ JOBS' = <<>>
         \/ wk'[w] = IdleWorker /\ JOBS'[wk[w].job].status \in Terminal]_vars

\* C2 witness: a job is done with the base model it fetched, after a switch
\* to small was committed in the meantime.
C2_Witness ==
  \E w \in Workers :
    /\ wk[w].pc = "log_done"
    /\ wk[w].model.id = "base"
    /\ cache.model.id = "small"
    /\ config.model_id = "small"
    /\ ~loading.in_progress

\* The state a rejected request must leave alone.
SwitchState == <<loading, cache, config, diskConfig, sw, nsw, loadCount>>

\* The step is switch_model answering request r: the handler run in one go,
\* or the rest of a handler that was suspended in `await request.json()`.
Answers(r) == SwitchModel(r.id, r.ct) \/ (swReq = r /\ SwitchModelResume)

\* The step enters switch_model, or calls queue_switch, with request r.
Issues(r) == SwitchModel(r.id, r.ct) \/ (swReq = r /\ r.id # "none" /\ SwitchModelResume)

\* C3: a switch request that enters switch_model, or reaches queue_switch,
\* while a switch is in progress is answered 409; no answer given while a
\* switch is in progress changes the loading state, the cache, the config or
\* the switch threads; at any time at most one switch thread is running, and
\* only while in_progress is set.
C3_ConflictWhileInProgress ==
  /\ [][\A r \in SwitchInputs :
          (loading.in_progress /\ Issues(r)) => resp'.code = 409]_vars
  /\ [][(loading.in_progress /\ resp'.op = "switch") => UNCHANGED SwitchState]_vars
  /\ [](/\ Cardinality({k \in 1..MaxSwitches : SwActive(k)}) <= 1
        /\ (\E k \in 1..MaxSwitches : SwActive(k)) => loading.in_progress)

\* C3 witness: a handler that was suspended before the switch now running
\* was accepted has just been answered 409 by queue_switch.
C3_Witness ==
  /\ resp = Resp("switch", 409)
  /\ swReq = NoReq
  /\ loading.in_progress
  /\ \E k \in 1..MaxSwitches : sw[k].pc = "load"
  /\ nsw = 1

\* A request whose id or compute_type is not supported.
InvalidRequest(r) ==
  \/ r.id \notin AVAILABLE_MODELS
  \/ r.ct # "none" /\ r.ct \notin valid_compute_types

\* C4 (as claimed): every switch request with an unsupported id or
\* compute_type is answered 400 and changes nothing.
C4_InvalidIs400 ==
  [][\A r \in SwitchInputs :
       (InvalidRequest(r) /\ Answers(r)) =>
         (resp'.code = 400 /\ UNCHANGED SwitchState)]_vars

\* C4 (amended): such a request changes nothing and is answered 400 when no
\* switch is in progress; when one is, it is answered 409 (400 only if the id
\* is missing altogether and the handler was entered before the switch).
C4_InvalidIsRejected ==
  [][\A r \in SwitchInputs :
       (InvalidRequest(r) /\ Answers(r)) =>
         /\ resp'.code \in {400, 409}
         /\ ~loading.in_progress => resp'.code = 400
         /\ (loading.in_progress /\ r.id # "none") => resp'.code = 409
         /\ UNCHANGED SwitchState]_vars

\* C4 witness: a request was just answered 400 and nothing was started.
C4_Witness ==
  /\ resp = Resp("switch", 400)
  /\ ~loading.in_progress
  /\ nsw = 0

\* C5 (as claimed): the commit of a switch is one step; whoever looks while
\* in_progress is still set (and _switch_lock is free) finds the configured
\* model of before the request.
C5_CommitIsAtomic ==
  \A k \in 1..MaxSwitches :
    (SwActive(k) /\ loading.in_progress /\ lock = 0) => config = sw[k].old

\* C6 (as claimed): the step that records the failure of a switch (error
\* set, in_progress cleared) finds the configured model, the persisted
\* config and the cached model as they were when the switch was requested.
C6_FailureKeepsCurrent ==
  [][\A k \in 1..MaxSwitches :
       (sw[k].pc = "fail" /\ sw'[k].pc = "done") =>
         /\ loading'.error = "failed"
         /\ ~loading'.in_progress
         /\ config' = sw[k].old
         /\ cache'.model # sw[k].model \/ sw[k].model = NoModel]_vars

\* C7 (as claimed): what the status query reports as a job's progress never
\* decreases from one state to the next.
C7_ProgressNeverDecreases ==
  [][\A j \in (DOMAIN JOBS) \cap (DOMAIN JOBS') :
       get_job_status(j)'.progress >= get_job_status(j).progress]_vars

\* C8 (as claimed): the status query reports progress 1.0 only together with
\* status done.
C8_FullProgressOnlyWhenDone ==
  \A j \in DOMAIN JOBS :
    get_job_status(j).progress = 10000 => get_job_status(j).status = "done"

\* C9 (as claimed): a status changes only from queued to running and from
\* running to done or error; done and error are never left.
C9_StatusTransitions ==
  [][\A j \in (DOMAIN JOBS) \cap (DOMAIN JOBS') :
       \/ JOBS'[j].status = JOBS[j].status
       \/ JOBS[j].status = "queued" /\ JOBS'[j].status = "running"
       \/ JOBS[j].status = "running" /\ JOBS'[j].status \in Terminal]_vars

C11_LogFileIsAlwaysComplete == jsonFile.kind \in {"absent", "table"}

\* The log has a (readable) entry for job j.
LogKnows(j) == jsonFile.kind = "table" /\ j \in DOMAIN jsonFile.tab

\* C12 (as claimed): the status query answers from JOBS when the id is
\* there; else from the metadata file, as done; else from the log entry; and
\* answers 404 only for an id none of the three knows.
C12_StatusResolutionOrder ==
  \A j \in Jobs : \A r \in StatusReplies(j) :
    /\ j \in DOMAIN JOBS => (r.code = 200 /\ r.status = JOBS[j].status)
    /\ (j \notin DOMAIN JOBS /\ "json" \in outputs[j]) =>
         (r.code = 200 /\ r.status = "done")
    /\ (j \notin DOMAIN JOBS /\ "json" \notin outputs[j] /\ LogKnows(j)) =>
         (r.code = 200 /\ r.status = jsonFile.tab[j].status)
    /\ r.code = 404 => (j \notin DOMAIN JOBS /\ "json" \notin outputs[j] /\ ~LogKnows(j))

\* One of the three stores knows job j.
Known(j) == j \in DOMAIN JOBS \/ outputs[j] # {} \/ LogKnows(j)

\* C13 (as claimed): after a request to delete a job that some store knows,
\* the job is in none of JOBS, OUTPUT_DIR and the log and the status query
\* answers 404; a request to delete a job no store knows is answered 404.
C13_DeleteRemovesTheJob ==
  [][\A j \in Jobs :
       DeleteRequest(j) =>
         IF Known(j)
         THEN /\ ~Known(j)'
              /\ \A r \in StatusReplies(j)' : r.code = 404
         ELSE resp'.code = 404]_vars

\* The limit clamped into [1, 1000].
ClampedLimit(limit) == IF limit < 1 THEN 1 ELSE IF limit > 1000 THEN 1000 ELSE limit

C15_DownloadOnlyWhenDone ==
  \A j \in Jobs : \A ext \in Exts :
    download_file(j, ext) = 200 => get_job_status(j).status = "done"

\* What the claim asks of a file name: not empty, at most 255 characters, no
\* "..", no "/", no "\", and, from its last dot on and whatever the case of
\* its letters, an extension of the allow-list.
Extension(s) ==
  LET dots == {i \in 1..Len(s) : s[i] = "."} IN
    IF dots = {} THEN <<>>
    ELSE SubSeq(s, CHOOSE d \in dots : \A e \in dots : e <= d, Len(s))

Acceptable(s) ==
  /\ Len(s) \in 1..255
  /\ ~Contains(s, <<".", ".">>)
  /\ "/" \notin Chars(s)
  /\ "\\" \notin Chars(s)
  /\ lower(Extension(s)) \in ALLOWED_EXTENSIONS

\* C16: validate_filename answers False for every name that is empty, longer
\* than 255 characters, holds "..", "/" or "\", or has an extension outside
\* the allow-list; and an upload under such a name is never accepted: no
\* handler is left waiting for its content and no job exists.
C16_InvalidNameIsRejected ==
  arg.kind = "filename" /\ ~Acceptable(String(arg)) =>
    /\ fname = "validate_filename" => ret = FALSE
    /\ ~upPending /\ njobs = 0 /\ JOBS = <<>>

\* A name with a separator and an allow-listed extension was refused by
\* validate_filename and, as the name of an upload, answered 400.
C16_Witness ==
  /\ arg.kind = "filename"
  /\ "/" \in Chars(String(arg))
  /\ lower(Extension(String(arg))) \in ALLOWED_EXTENSIONS
  /\ fname = "validate_filename" /\ ret = FALSE
  /\ resp = Resp("upload", 400)

C18_NormalizeIsIdempotent ==
  fname = "normalize_newlines" =>
    /\ normalize_newlines(ret) = ret
    /\ "\r" \notin Chars(ret)
    /\ ~Contains(ret, <<"\\", "n">>)

\* A text with a lone CR and a backslash-n escape was normalized.
C18_Witness ==
  /\ fname = "normalize_newlines"
  /\ Contains(arg.tail, <<"\r", "a">>)
  /\ Contains(arg.tail, <<"\\", "n">>)
  /\ ret # arg.tail

\* C19 (as claimed): at most MAX_WORKERS jobs are running; a running job is
\* in the hands of exactly one worker, which took it from the queue and
\* keeps it to its end; a job that no worker has taken yet is queued and
\* waits in the queue once; a job that was taken is not in the queue again.
C19_BoundedPoolRunsEachJobOnce ==
  /\ Cardinality({j \in DOMAIN JOBS : JOBS[j].status = "running"}) <= MAX_WORKERS
  /\ \A j \in DOMAIN JOBS :
       LET waits == {i \in 1..Len(queue) : queue[i] = j} IN
         /\ JOBS[j].status = "running" =>
              Cardinality({w \in Workers : wk[w].job = j}) = 1 /\ waits = {}
         /\ JOBS[j].status = "queued" => ~Executing(j) /\ Cardinality(waits) <= 1
         /\ JOBS[j].status \in Terminal => waits = {}

\* Where a worker is between the probe and the last artifact: lines 354-423.
TryPcs == {"probe", "gm_check", "gm_load", "gm_install", "gm_ret", "segments"}

\* C20: a failure in the probe, in get_model, in the decoder or in the
\* writing of the artifacts changes no record and sends the worker of job J
\* to the except clause; the except clause sets J's record to error with
\* the message and leaves every other record as it is; from there the
\* worker is never stuck and its only way is the log entry, the finally
\* clause and back to the pool, where it is free for the next submission.
C20_FailureStaysInItsJob ==
  /\ [](\A w \in Workers :
          /\ wk[w].pc = "except" => ENABLED WExcept(w)
          /\ wk[w].pc = "log_error" =>
               ENABLED (UpsertLoad(w) \/ UpsertOpen(w) \/ UpsertWrite(w) \/ UpsertReplace(w))
          /\ wk[w].pc = "finally" => ENABLED WFinally(w))
  /\ [][\A w \in Workers :
          \/ JOBS' = <<>> /\ wk'[w] = IdleWorker
          \/ LET j == wk[w].job IN
               /\ wk[w].pc \in TryPcs /\ wk'[w].pc = "except" =>
                    JOBS' = JOBS /\ wk'[w].job = j
               /\ wk[w].pc = "except" /\ wk'[w] # wk[w] =>
                    /\ JOBS'[j].status = "error" /\ JOBS'[j].error
                    /\ \A i \in (DOMAIN JOBS) \ {j} : JOBS'[i] = JOBS[i]
                    /\ wk'[w].pc = "log_error" /\ wk'[w].job = j
               /\ wk[w].pc = "log_error" /\ wk'[w] # wk[w] =>
                    wk'[w].pc = "finally" /\ wk'[w].job = j
               /\ wk[w].pc = "finally" /\ wk'[w] # wk[w] => wk'[w] = IdleWorker]_vars

\* The first worker, whose first job failed before its last artifact was
\* written, is in the middle of the job submitted after it.
C20_Witness ==
  /\ 1 \in DOMAIN JOBS /\ JOBS[1].status = "error" /\ JOBS[1].error
  /\ outputs[1] # Exts
  /\ wk[1].job = 2 /\ wk[1].pc = "segments"
  /\ wk[2] = IdleWorker

\* C21 (as claimed): a job that was submitted to the pool reaches done or
\* error in the end.
C21_EveryJobEnds ==
  \A j \in Jobs :
    (\E i \in 1..Len(queue) : queue[i] = j)
      ~> (j \in DOMAIN JOBS /\ JOBS[j].status \in Terminal)

\* C22: the thread of every accepted switch ends, and when it has ended
\* in_progress is false, whether the model was loaded and the config saved
\* or not.
C22_SwitchAlwaysEnds ==
  \A k \in 1..MaxSwitches :
    SwActive(k) ~> (sw[k].pc = "done" /\ ~loading.in_progress)

\* Two switches were accepted one after the other; the second has ended
\* in failure and in_progress is false.
C22_Witness ==
  /\ nsw = 2
  /\ \A k \in 1..MaxSwitches : sw[k].pc = "done"
  /\ loading.error = "failed"
  /\ ~loading.in_progress

\* C23 (as claimed): whatever happens to the log, a worker that leaves the
\* running update goes on with the probe, a worker that leaves the
\* completion update goes on with the cleanup, its job done, and a job
\* whose four artifacts are written is done with progress 1.0 as soon as
\* the worker has marked it and stays so.
C23_LogFailureKeepsOutcome ==
  /\ [](\A j \in DOMAIN JOBS :
          outputs[j] = Exts =>
            \/ JOBS[j].status = "done" /\ JOBS[j].progress = <<1, 1>>
            \/ \E w \in Workers : wk[w].job = j /\ wk[w].pc = "mark_done")
  /\ [][\A w \in Workers :
          \/ JOBS' = <<>> /\ wk'[w] = IdleWorker
          \/ /\ wk[w].pc = "log_running" /\ wk'[w] # wk[w] => wk'[w].pc = "probe"
             /\ wk[w].pc = "log_done" /\ wk'[w] # wk[w] => wk'[w].pc = "finally"]_vars

\* C24 (as claimed): whatever the probe does, the worker goes on from it to
\* get_model, never to the except clause, and a job that is consuming its
\* segments with a duration of 0 has progress 0.
C24_ProbeFailureIsHarmless ==
  /\ [](\A w \in Workers :
          wk[w].pc = "segments" /\ wk[w].dur = 0 => JOBS[wk[w].job].progress = <<0, 1>>)
  /\ [][\A w \in Workers :
          \/ JOBS' = <<>> /\ wk'[w] = IdleWorker
          \/ wk[w].pc = "probe" /\ wk'[w] # wk[w] => wk'[w].pc = "gm_check"]_vars

\* The lines a text is made of: the pieces between its LFs.
LineEnds(s) == {i \in 1..Len(s) : s[i] = "\n"}

\* The segments that have something to say: a text that is not empty once
\* it is normalized and trimmed.
Spoken(segments) ==
  SelectSeq(segments, LAMBDA t : Len(strip(normalize_newlines(t))) > 0)

\* C25 (as claimed): the plain text is the trimmed, normalized texts of the
\* segments that have one, in order, joined by LF: as many lines as there
\* are such segments, none of them empty.
C25_OneLinePerSpokenSegment ==
  fname = "segments_to_text" =>
    LET spoken == Spoken(arg.tail) IN
      /\ ret = join(<<"\n">>, [i \in 1..Len(spoken) |-> strip(normalize_newlines(spoken[i]))])
      /\ Cardinality(LineEnds(ret)) = IF Len(spoken) = 0 THEN 0 ELSE Len(spoken) - 1
      /\ \A i \in LineEnds(ret) : i # 1 /\ i # Len(ret) /\ i + 1 \notin LineEnds(ret)

\* C26 (as claimed): the model_id and compute_type a worker writes into the
\* metadata envelope of its job, which are also those of the completion log
\* entry (lines 444-445), are those of the model it decoded the job with.
C26_MetadataNamesTheModelUsed ==
  [][\A w \in Workers :
       wk[w].pc = "segments" /\ wk'[w].pc = "mark_done" =>
         meta'[wk[w].job] = Cfg(wk[w].model.id, wk[w].model.ct)]_vars

\* Nothing is going on: no handler, no worker and no upsert_log is in the
\* middle of anything and every job of the table is over.
AllOver ==
  /\ fepc = "idle" /\ ~upPending /\ queue = <<>>
  /\ \A w \in Workers : wk[w] = IdleWorker
  /\ \A t \in Threads : ups[t] = NoUpsert
  /\ \A j \in DOMAIN JOBS : JOBS[j].status \in Terminal

\* C27 (as claimed): in the runs where no file operation fails, once all
\* jobs are over the log file holds a table with an entry for every job of
\* the job table, whose status is that of the job.
C27_NoUpsertIsLost ==
  ~budget.faults /\ AllOver =>
    \A j \in DOMAIN JOBS :
      /\ jsonFile.kind = "table"
      /\ j \in DOMAIN jsonFile.tab
      /\ jsonFile.tab[j].status = JOBS[j].status

\* C28 (as claimed): while no switch is in progress the config file holds
\* the model_id and compute_type of the config in memory.
C28_ConfigIsPersisted == ~loading.in_progress => diskConfig = config

\* C29 (as claimed): while a switch is in progress no step stores an upload,
\* creates a job record or submits work, and an upload request that comes
\* in is answered 423.
C29_NoJobWhileSwitching ==
  [][loading.in_progress =>
       /\ DOMAIN JOBS' \subseteq DOMAIN JOBS
       /\ uploads' \subseteq uploads
       /\ Len(queue') <= Len(queue)
       /\ (\E valid \in BOOLEAN : UploadBegin(valid)) => resp' = Resp("upload", 423)]_vars

====
